---- MODULE Spec2Model ----
(***************************************************************************)
(* Model of the data donation flow of port/script.py: the generator        *)
(* DataDonationProcessor.process, driven by a host that resumes it with    *)
(* tagged payloads, and the TikTok extractor it calls on the chosen file.  *)
(*                                                                         *)
(* One action is one resumption of the generator (next()/send(r)): it runs *)
(* the code from the yield it was parked at up to the next yield, to the   *)
(* end of the generator, or to an uncaught exception.                      *)
(***************************************************************************)
EXTENDS Integers, Sequences, FiniteSets, TLC

\* one controller: position, object, commands emitted, answers received,
\* uncaught exception, files handed to the extractor
VARIABLES pc, self, out, inp, exc, extracted

\* several controllers made by one DataDonation object, and the list objects
\* their meta_data attributes refer to
VARIABLES procs, heap

\* a call of one of the module's functions and what it returned
VARIABLES call, ret

ctlvars == <<pc, self, out, inp, exc, extracted>>

vars == <<pc, self, out, inp, exc, extracted, procs, heap, call, ret>>

(***************************************************************************)
(* Bounds and input sets                                                   *)
(***************************************************************************)

\* the host resumes the controller with at most this many responses
MaxResponses == 3

SessionIds == {"s1", "s2"}

Platforms == {"TikTok", "Facebook"}

\* the sections of an export document the extraction steps read with get_in
AllSections == {"FansList", "Following", "likesReceived", "Video.VideoList",
                "ItemFavoriteList", "CommentsList", "Browsing.VideoList"}

\* sections whose absence makes an extraction step raise (len(None) or
\* iteration over None); likesReceived is read without len()
RequiredSections == AllSections \ {"likesReceived"}

\* the files the user can select: what lies behind each path
Archive(path) ==
    CASE path = "missing.zip"  -> [exists |-> FALSE, is_zip |-> FALSE, entries |-> <<>>]
      [] path = "notes.txt"    -> [exists |-> TRUE,  is_zip |-> FALSE, entries |-> <<>>]
      [] path = "empty.zip"    -> [exists |-> TRUE,  is_zip |-> TRUE,  entries |-> <<>>]
      [] path = "nojson.zip"   -> [exists |-> TRUE,  is_zip |-> TRUE,  entries |->
            << [suffix |-> ".html", parses |-> FALSE, doc |-> {}] >>]
      [] path = "badjson.zip"  -> [exists |-> TRUE,  is_zip |-> TRUE,  entries |->
            << [suffix |-> ".json", parses |-> FALSE, doc |-> {}] >>]
      [] path = "partial.zip"  -> [exists |-> TRUE,  is_zip |-> TRUE,  entries |->
            << [suffix |-> ".json", parses |-> TRUE, doc |-> AllSections \ {"FansList"}] >>]
      [] path = "full.zip"     -> [exists |-> TRUE,  is_zip |-> TRUE,  entries |->
            << [suffix |-> ".txt",  parses |-> FALSE, doc |-> {}],
               [suffix |-> ".json", parses |-> TRUE,  doc |-> RequiredSections],
               [suffix |-> ".json", parses |-> FALSE, doc |-> {}] >>]
      [] OTHER                 -> [exists |-> FALSE, is_zip |-> FALSE, entries |-> <<>>]

Files == {"missing.zip", "notes.txt", "empty.zip", "nojson.zip",
          "badjson.zip", "partial.zip", "full.zip"}

JsonValues == {"[]", "[{\"rows\": 1}]"}

\* what the host can send: an object with a __type__ tag (field type) and a
\* value, or an object that carries no tag at all
Responses ==
    [type : {"PayloadString"}, value : Files]
    \cup [type : {"PayloadJSON"}, value : JsonValues]
    \cup [type : {"PayloadFalse", "PayloadVoid"}, value : {"-"}]
    \cup [value : {"-"}]

(***************************************************************************)
(* Python object model                                                     *)
(***************************************************************************)

\* attribute lookup obj.name succeeds iff the object has the attribute
HasAttr(obj, name) == name \in DOMAIN obj

\* except IOError: IOError is OSError; FileNotFoundError is a subclass,
\* zipfile.BadZipFile, json.JSONDecodeError and TypeError are not
IsIOError(e) == e \in {"IOError", "OSError", "FileNotFoundError"}

(***************************************************************************)
(* TikTok extraction                                                       *)
(***************************************************************************)

Return(v) == [kind |-> "return", exc |-> "none", is_none |-> FALSE, value |-> v]

ReturnNone == [kind |-> "return", exc |-> "none", is_none |-> TRUE, value |-> <<>>]

Raises(e) == [kind |-> "raise", exc |-> e, is_none |-> FALSE, value |-> <<>>]

ExtractionResult(id, title, data_frame) ==
    [id |-> id, title |-> title, data_frame |-> data_frame]

\* the first item the generator get_json_data produces over the entries left:
\* entries not ending in .json are skipped, json.load raises on bad content
RECURSIVE first_json(_)
first_json(entries) ==
    IF entries = <<>> THEN [kind |-> "exhausted", exc |-> "none", doc |-> {}]
    ELSE IF Head(entries).suffix # ".json" THEN first_json(Tail(entries))
    ELSE IF ~Head(entries).parses
         THEN [kind |-> "raise", exc |-> "JSONDecodeError", doc |-> {}]
         ELSE [kind |-> "yield", exc |-> "none", doc |-> Head(entries).doc]

get_json_data(zip_file) ==
    LET a == Archive(zip_file) IN
    IF ~a.exists THEN [kind |-> "raise", exc |-> "FileNotFoundError", doc |-> {}]
    ELSE IF ~a.is_zip THEN [kind |-> "raise", exc |-> "BadZipFile", doc |-> {}]
    ELSE first_json(a.entries)

\* the five extraction steps on one parsed document, in the order of the list
extract_steps(data) ==
    IF ~(RequiredSections \subseteq data) THEN Raises("TypeError")
    ELSE Return(<< ExtractionResult("tiktok_summary", "Summary information", "summary"),
                   ExtractionResult("tiktok_posts", "Video posts", "posts"),
                   ExtractionResult("tiktok_active", "Active behaviour", "active"),
                   ExtractionResult("tiktok_passive", "Passive behaviour", "passive"),
                   ExtractionResult("tiktok_sessions", "Session information", "sessions") >>)

\* for data in get_json_data(zip_file): return [...]   (falls off the end,
\* returning None, when the generator yields nothing)
extract_tiktok_data(zip_file) ==
    LET g == get_json_data(zip_file) IN
    CASE g.kind = "raise"     -> Raises(g.exc)
      [] g.kind = "exhausted" -> ReturnNone
      [] g.kind = "yield"     -> extract_steps(g.doc)

(***************************************************************************)
(* Commands                                                                *)
(***************************************************************************)

donate(key, json_string) ==
    [cmd |-> "CommandSystemDonate", key |-> key, json_string |-> json_string]

render_donation_page(platform, body, progress) ==
    [cmd |-> "CommandUIRender", page |-> "PropsUIPageDonation",
     platform |-> platform, header |-> platform, body |-> body,
     footer |-> progress]

PropsUIPromptFileInput(extensions) ==
    [prompt |-> "PropsUIPromptFileInput", extensions |-> extensions]

PropsUIPromptConsentFormTable(id, title, data_frame) ==
    [id |-> id, title |-> title, data_frame |-> data_frame]

PropsUIPromptConsentForm(tables, meta_tables) ==
    [prompt |-> "PropsUIPromptConsentForm", tables |-> tables,
     meta_tables |-> meta_tables]

(***************************************************************************)
(* DataDonationProcessor                                                   *)
(***************************************************************************)

\* The generator's state while one resumption runs: a record of the values
\* the variables take.
Ctl == [pc |-> pc, self |-> self, out |-> out, exc |-> exc,
        extracted |-> extracted]

\* DataDonationProcessor.__init__: the attributes the object has
DataDonationProcessor(platform, mime_types, extractor, session_id) ==
    [platform |-> platform, mime_types |-> mime_types,
     extractor |-> extractor, session_id |-> session_id,
     progress |-> 0, meta_data |-> <<>>]

\* self.log(message)
log(s, message) ==
    [s EXCEPT !.self.meta_data =
        Append(@, <<"debug", s.self.platform \o ": " \o message>>)]

\* an exception nothing in the generator catches: it leaves process()
Raise(s, e) == [s EXCEPT !.pc = "raised", !.exc = e]

\* self.extract_data(file): calls the extractor the object was built with
extract_data(obj, file) ==
    CASE obj.extractor = "extract_tiktok_data" -> extract_tiktok_data(file)

\* prompt_file up to its yield: the file-input page is emitted
prompt_file(s) ==
    [s EXCEPT !.out = Append(@, render_donation_page(
                        s.self.platform,
                        PropsUIPromptFileInput(s.self.mime_types),
                        s.self.progress)),
              !.pc = "await_file"]

\* prompt_consent up to its first yield: iterating None raises TypeError,
\* the log table is built before "prompt consent" is logged
prompt_consent(s, data) ==
    IF data.is_none THEN Raise(s, "TypeError")
    ELSE LET tables == [i \in 1..Len(data.value) |->
                           PropsUIPromptConsentFormTable(data.value[i].id,
                               data.value[i].title, data.value[i].data_frame)]
             meta_table == PropsUIPromptConsentFormTable(
                               "log_messages", "Log messages", s.self.meta_data)
             s1 == log(s, "prompt consent")
         IN [s1 EXCEPT !.out = Append(@, render_donation_page(
                                  s1.self.platform,
                                  PropsUIPromptConsentForm(tables, <<meta_table>>),
                                  s1.self.progress)),
                       !.pc = "await_consent"]

\* file_result.__type__ != "PayloadString", on an object that may lack __type__
file_result_kind(r) ==
    IF ~HasAttr(r, "type") THEN "AttributeError"
    ELSE IF r.type # "PayloadString" THEN "skip"
    ELSE "file"

\* process_file leaving process() after an IOError instead of going round
\* the loop
process_file_return_on_ioerror(s, file_result) ==
    LET s1  == log(s, "extracting file")
        res == extract_data(s1.self, file_result.value)
        s2  == [s1 EXCEPT !.extracted = Append(@, file_result.value)]
    IN IF res.kind = "raise"
       THEN IF IsIOError(res.exc)
            THEN [log(s2, "prompt confirmation to retry file selection")
                    EXCEPT !.pc = "done"]
            ELSE Raise(s2, res.exc)
       ELSE prompt_consent(log(s2, "extraction successful, go to consent form"), res)

\* the body of the while loop of process() after prompt_file has returned
process_file(s, file_result) ==
    LET s1  == log(s, "extracting file")
        res == extract_data(s1.self, file_result.value)
        s2  == [s1 EXCEPT !.extracted = Append(@, file_result.value)]
    IN IF res.kind = "raise"
       THEN IF IsIOError(res.exc)
            THEN prompt_file(log(s2, "prompt confirmation to retry file selection"))
            ELSE Raise(s2, res.exc)
       ELSE prompt_consent(log(s2, "extraction successful, go to consent form"), res)

\* resume_file without the raise of SkipToNextStep: prompt_file returns the
\* non-file answer and process() goes on to extract it
resume_file_no_raise(s, file_result) ==
    LET k == file_result_kind(file_result) IN
    CASE k = "AttributeError" -> Raise(s, "AttributeError")
      [] k = "skip" -> process_file(log(s, "skip to next step"), file_result)
      [] k = "file" -> process_file(s, file_result)

\* resumption at the yield of prompt_file with the host's answer; the
\* SkipToNextStep raised on a non-file answer is suppressed by process(),
\* which then returns
resume_file(s, file_result) ==
    LET k == file_result_kind(file_result) IN
    CASE k = "AttributeError" -> Raise(s, "AttributeError")
      [] k = "skip" -> [log(s, "skip to next step") EXCEPT !.pc = "done"]
      [] k = "file" -> process_file(s, file_result)

\* donate_key reading the attribute __init__ sets
donate_key_session_id(obj) ==
    [ok |-> TRUE, key |-> obj.session_id \o "-" \o obj.platform]

\* f"{self.sessionId}-{self.platform}": __init__ sets session_id, not sessionId
donate_key(obj) ==
    IF HasAttr(obj, "sessionId")
    THEN [ok |-> TRUE, key |-> obj["sessionId"] \o "-" \o obj.platform]
    ELSE [ok |-> FALSE, key |-> ""]

\* resumption at the consent yield of prompt_consent; when prompt_consent
\* returns, the while True of process() prompts for a file again
resume_consent(s, consent_result) ==
    IF ~HasAttr(consent_result, "type") THEN Raise(s, "AttributeError")
    ELSE IF consent_result.type = "PayloadJSON"
    THEN LET s1 == log(s, "donate consent data")
             k  == donate_key(s1.self)
         IN IF ~k.ok THEN Raise(s1, "AttributeError")
            ELSE [s1 EXCEPT !.out = Append(@, donate(k.key, consent_result.value)),
                            !.pc = "await_donate"]
    ELSE prompt_file(s)

\* resumption at the donate yield: prompt_consent returns, the loop goes on
resume_donate(s) == prompt_file(s)

\* generator.send(r) on a suspended generator
send(s, r) ==
    CASE s.pc = "await_file"    -> resume_file(s, r)
      [] s.pc = "await_consent" -> resume_consent(s, r)
      [] s.pc = "await_donate"  -> resume_donate(s)

Suspended == {"await_file", "await_consent", "await_donate"}

(***************************************************************************)
(* State machine                                                           *)
(***************************************************************************)

Init ==
    /\ pc = "start"
    /\ \E sid \in SessionIds, p \in Platforms :
          self = DataDonationProcessor(p, "application/zip, text/plain",
                                       "extract_tiktok_data", sid)
    /\ out = <<>>
    /\ inp = <<>>
    /\ exc = "none"
    /\ extracted = <<>>
    /\ procs = <<>>
    /\ heap = <<>>
    /\ call = <<>>
    /\ ret = <<>>

Become(n) ==
    /\ pc' = n.pc
    /\ self' = n.self
    /\ out' = n.out
    /\ exc' = n.exc
    /\ extracted' = n.extracted

\* the first next() on the generator: runs process() to the first yield
Start ==
    /\ pc = "start"
    /\ Become(prompt_file(Ctl))
    /\ UNCHANGED <<inp, procs, heap, call, ret>>

\* the host answers the command the generator is parked at
Send(r) ==
    /\ pc \in Suspended
    /\ Len(inp) < MaxResponses
    /\ inp' = Append(inp, r)
    /\ Become(send(Ctl, r))
    /\ UNCHANGED <<procs, heap, call, ret>>

Next == Start \/ \E r \in Responses : Send(r)

Spec == Init /\ [][Next]_vars

TypeOK ==
    /\ pc \in {"start", "done", "raised"} \cup Suspended
    /\ Len(inp) <= MaxResponses
    /\ (pc = "raised") = (exc # "none")

(***************************************************************************)
(* Several controllers of one DataDonation object                          *)
(***************************************************************************)

\* each of the controllers is resumed with at most this many responses
MaxResponsesEach == 2

Instances == {1, 2}

\* DataDonation.__init__: platform, mime types and extractor, all immutable
DataDonation(platform, mime_types, extractor) ==
    [platform |-> platform, mime_types |-> mime_types, extractor |-> extractor]

\* new_list handing out one list object to every caller (a list made once,
\* as a class attribute or a default argument would be)
new_list_shared(h) ==
    [addr |-> 1, heap |-> IF h = <<>> THEN << <<>> >> ELSE h]

\* self.meta_data = []: the list display makes a new list object, at an
\* address no other object refers to
new_list(h) == [addr |-> Len(h) + 1, heap |-> Append(h, <<>>)]

\* the controller i as the operators on one controller see it: the
\* meta_data attribute replaced by the list it refers to
View(i) ==
    [pc |-> procs[i].pc,
     self |-> [procs[i].self EXCEPT !.meta_data = heap[@]],
     out |-> procs[i].out, exc |-> procs[i].exc,
     extracted |-> procs[i].extracted]

\* writes the outcome n of a resumption of controller i back: the log goes to
\* the list object the attribute refers to, the rest to the controller
Store(i, addr, h, n, answers) ==
    /\ heap' = [h EXCEPT ![addr] = n.self.meta_data]
    /\ procs' = [procs EXCEPT ![i] =
                    [dd |-> @.dd, session_id |-> @.session_id, inp |-> answers,
                     pc |-> n.pc, self |-> [n.self EXCEPT !.meta_data = addr],
                     out |-> n.out, exc |-> n.exc, extracted |-> n.extracted]]

InitTwo ==
    /\ \E p \in Platforms :
         \E sids \in [Instances -> SessionIds] :
            procs = [i \in Instances |->
                       [dd |-> DataDonation(p, "application/zip, text/plain",
                                            "extract_tiktok_data"),
                        session_id |-> sids[i], inp |-> <<>>,
                        pc |-> "start", self |-> <<>>, out |-> <<>>,
                        exc |-> "none", extracted |-> <<>>]]
    /\ heap = <<>>
    /\ pc = "start"
    /\ self = <<>>
    /\ out = <<>>
    /\ inp = <<>>
    /\ exc = "none"
    /\ extracted = <<>>
    /\ call = <<>>
    /\ ret = <<>>

\* the first next() on the generator DataDonation.__call__ returned: the
\* processor is constructed and process() runs to its first yield
StartOf(i) ==
    /\ procs[i].pc = "start"
    /\ LET dd == procs[i].dd
           l  == new_list(heap)
           s0 == [pc |-> "start",
                  self |-> [DataDonationProcessor(dd.platform, dd.mime_types,
                                dd.extractor, procs[i].session_id)
                            EXCEPT !.meta_data = l.heap[l.addr]],
                  out |-> <<>>, exc |-> "none", extracted |-> <<>>]
       IN Store(i, l.addr, l.heap, prompt_file(s0), <<>>)
    /\ UNCHANGED <<ctlvars, call, ret>>

\* the host answers the command controller i is parked at
SendTo(i, r) ==
    /\ procs[i].pc \in Suspended
    /\ Len(procs[i].inp) < MaxResponsesEach
    /\ Store(i, procs[i].self.meta_data, heap, send(View(i), r),
             Append(procs[i].inp, r))
    /\ UNCHANGED <<ctlvars, call, ret>>

NextTwo == \E i \in Instances : StartOf(i) \/ \E r \in Responses : SendTo(i, r)

SpecTwo == InitTwo /\ [][NextTwo]_vars

(***************************************************************************)
(* The script: process(session_id)                                         *)
(***************************************************************************)

\* the host resumes the script with at most this many responses
MaxScriptResponses == 4

\* tik_tok_data_donation = DataDonation("TikTok", ..., extract_tiktok_data)
tik_tok_data_donation ==
    DataDonation("TikTok", "application/zip, text/plain", "extract_tiktok_data")

\* CommandUIRender(props.PropsUIPageEnd())
render_end_page == [cmd |-> "CommandUIRender", page |-> "PropsUIPageEnd"]

\* process() up to its first yield: the tracking donation
script_start(s, session_id) ==
    [s EXCEPT !.out = Append(@, donate(session_id \o "-tracking",
                                       "[{ \"message\": \"user entered script\" }]")),
              !.pc = "await_tracking"]

\* the controller's generator is exhausted: yield from returns and process()
\* runs to the yield of the end page; an exception passes through process()
after_controller(n) ==
    IF n.pc = "done"
    THEN [n EXCEPT !.out = Append(@, render_end_page), !.pc = "await_end"]
    ELSE n

\* script_send returning when the controller returns, with no end page
script_send_no_end_page(s, r, session_id) ==
    CASE s.pc = "await_tracking" ->
            prompt_file([s EXCEPT !.self = DataDonationProcessor(
                            tik_tok_data_donation.platform,
                            tik_tok_data_donation.mime_types,
                            tik_tok_data_donation.extractor, session_id)])
      [] s.pc \in Suspended -> send(s, r)
      [] s.pc = "await_end" -> [s EXCEPT !.pc = "done"]

\* generator.send(r) on the suspended generator of process(session_id):
\* after the tracking donation DataDonation.__call__ constructs the
\* controller and delegates to it; after the end page process() returns
script_send(s, r, session_id) ==
    CASE s.pc = "await_tracking" ->
            after_controller(
                prompt_file([s EXCEPT !.self = DataDonationProcessor(
                                tik_tok_data_donation.platform,
                                tik_tok_data_donation.mime_types,
                                tik_tok_data_donation.extractor, session_id)]))
      [] s.pc \in Suspended -> after_controller(send(s, r))
      [] s.pc = "await_end" -> [s EXCEPT !.pc = "done"]

ScriptSuspended == Suspended \cup {"await_tracking", "await_end"}

InitScript ==
    /\ \E session_id \in SessionIds :
          call = [fn |-> "process", session_id |-> session_id]
    /\ ret = <<>>
    /\ pc = "start"
    /\ self = <<>>
    /\ out = <<>>
    /\ inp = <<>>
    /\ exc = "none"
    /\ extracted = <<>>
    /\ procs = <<>>
    /\ heap = <<>>

\* the first next() on process(session_id)
ScriptStart ==
    /\ pc = "start"
    /\ Become(script_start(Ctl, call.session_id))
    /\ UNCHANGED <<inp, procs, heap, call, ret>>

\* the host answers the command the script is parked at
ScriptSend(r) ==
    /\ pc \in ScriptSuspended
    /\ Len(inp) < MaxScriptResponses
    /\ inp' = Append(inp, r)
    /\ Become(script_send(Ctl, r, call.session_id))
    /\ UNCHANGED <<procs, heap, call, ret>>

NextScript == ScriptStart \/ \E r \in Responses : ScriptSend(r)

SpecScript == InitScript /\ [][NextScript]_vars

(***************************************************************************)
(* Time helpers of the TikTok extraction                                   *)
(*                                                                         *)
(* A datetime is the number of seconds since midnight of a first day, a    *)
(* timedelta a number of seconds.                                          *)
(***************************************************************************)

\* the calls of one function take sequences of at most this many elements
MaxItems == 3

\* datetime.timedelta(hours=1)
Hour == 3600

Day == 86400

\* 10:00, 10:30, 11:00, 11:00:01, 12:00 of the first day, 10:00 of the next
Times == {36000, 37800, 39600, 39601, 43200, 122400}

SeqsUpTo(S, n) == UNION {[1..k -> S] : k \in 0..n}

\* sorted(xs): ascending, by insertion
RECURSIVE insert_sorted(_, _)
insert_sorted(x, xs) ==
    IF xs = <<>> THEN <<x>>
    ELSE IF x < Head(xs) THEN <<x>> \o xs
    ELSE <<Head(xs)>> \o insert_sorted(x, Tail(xs))

\* sorted() left out: the timestamps are scanned in the order given
sorted_unsorted(xs) == xs

RECURSIVE sorted(_)
sorted(xs) ==
    IF xs = <<>> THEN <<>>
    ELSE insert_sorted(xs[Len(xs)], sorted(SubSeq(xs, 1, Len(xs) - 1)))

\* the split test with >= in place of >
gap_exceeds_ge(prev, cur) == cur - prev >= Hour

\* cur - prev > datetime.timedelta(hours=1)
gap_exceeds(prev, cur) == cur - prev > Hour

\* the loop over zip(timestamps, timestamps[1:]) from its i-th pair on, and
\* the append after the loop
RECURSIVE scan_sessions(_, _, _, _, _)
scan_sessions(timestamps, i, start, end, sessions) ==
    IF i > Len(timestamps)
    THEN Append(sessions, <<start, end, end - start>>)
    ELSE LET prev == timestamps[i - 1]
             cur  == timestamps[i]
         IN IF gap_exceeds(prev, cur)
            THEN scan_sessions(timestamps, i + 1, cur, cur,
                               Append(sessions, <<start, end, end - start>>))
            ELSE scan_sessions(timestamps, i + 1, start, cur, sessions)

get_sessions(timestamps) ==
    LET ts == sorted(timestamps) IN
    IF Len(ts) = 0 THEN <<>>
    ELSE IF Len(ts) = 1 THEN << <<ts[1], ts[1], 0>> >>
    ELSE scan_sessions(ts, 2, ts[1], ts[1], <<>>)

\* date.replace(minute=0, second=0, microsecond=0)
hourly_key(date) == date - (date % Hour)

\* date.date(): the day the datetime lies in
daily_key(date) == date \div Day

\* key_func(timestamp) for the key function passed by name
apply_key(key_func, timestamp) ==
    CASE key_func = "hourly_key" -> hourly_key(timestamp)
      [] key_func = "daily_key"  -> daily_key(timestamp)

\* the count set to 1 instead of incremented
count_up_overwrite(item_count, key) ==
    IF key \in DOMAIN item_count
    THEN [item_count EXCEPT ![key] = 1]
    ELSE item_count @@ (key :> 1)

\* item_count[key] += 1 on a defaultdict(int): a missing key starts at 0
count_up(item_count, key) ==
    IF key \in DOMAIN item_count
    THEN [item_count EXCEPT ![key] = @ + 1]
    ELSE item_count @@ (key :> 1)

\* the dict after the loop over timestamps[i..]
RECURSIVE count_loop(_, _, _, _)
count_loop(timestamps, key_func, i, item_count) ==
    IF i > Len(timestamps) THEN item_count
    ELSE count_loop(timestamps, key_func, i + 1,
                    count_up(item_count, apply_key(key_func, timestamps[i])))

\* sorted(item_count.items()): the (key, count) pairs, smallest key first
RECURSIVE sorted_items(_)
sorted_items(item_count) ==
    IF DOMAIN item_count = {} THEN <<>>
    ELSE LET k == CHOOSE x \in DOMAIN item_count :
                      \A y \in DOMAIN item_count : x <= y
         IN << <<k, item_count[k]>> >>
            \o sorted_items([y \in DOMAIN item_count \ {k} |-> item_count[y]])

get_count_by_date_key(timestamps, key_func) ==
    sorted_items(count_loop(timestamps, key_func, 1, <<>>))

(***************************************************************************)
(* Date filter.  A "Date" string in datetime_format is the sequence of its *)
(* fields <<year, month, day, hour, minute, second>>; the datetime parsed  *)
(* from it has the microsecond as a seventh field, and datetimes compare   *)
(* field by field, most significant first.                                 *)
(***************************************************************************)

\* datetime.datetime(2021, 1, 1)
filter_start == <<2021, 1, 1, 0, 0, 0, 0>>

\* datetime.datetime(2025, 1, 1)
filter_end == <<2025, 1, 1, 0, 0, 0, 0>>

\* datetime.datetime.strptime(date_string, "%Y-%m-%d %H:%M:%S")
strptime(date_string) == Append(date_string, 0)

\* a < b on datetimes
datetime_lt(a, b) ==
    \E i \in 1..7 : a[i] < b[i] /\ \A j \in 1..i - 1 : a[j] = b[j]

\* the window test with <= at the start: the first instant is left out
outside_window_open_start(timestamp) ==
    ~datetime_lt(filter_start, timestamp) \/ datetime_lt(filter_end, timestamp)

\* timestamp < filter_start or timestamp > filter_end
outside_window(timestamp) ==
    datetime_lt(timestamp, filter_start) \/ datetime_lt(filter_end, timestamp)

\* what the generator yields over items[i..], as a list
RECURSIVE filtered_from(_, _)
filtered_from(items, i) ==
    IF i > Len(items) THEN <<>>
    ELSE LET timestamp == strptime(items[i].Date) IN
         IF outside_window(timestamp) THEN filtered_from(items, i + 1)
         ELSE << <<timestamp, items[i]>> >> \o filtered_from(items, i + 1)

get_date_filtered_items(items) == filtered_from(items, 1)

\* records around both ends of the window, two of them at the same instant
Records ==
    { [Date |-> <<2020, 12, 31, 23, 59, 59>>, Likes |-> "1"],
      [Date |-> <<2021, 1, 1, 0, 0, 0>>,      Likes |-> "2"],
      [Date |-> <<2023, 6, 15, 12, 0, 0>>,    Likes |-> "3"],
      [Date |-> <<2023, 6, 15, 12, 0, 0>>,    Likes |-> "7"],
      [Date |-> <<2025, 1, 1, 0, 0, 0>>,      Likes |-> "5"],
      [Date |-> <<2025, 1, 1, 0, 0, 1>>,      Likes |-> "6"] }

(***************************************************************************)
(* facebook.py.  An entry name of an archive is kept in the parts          *)
(* pathlib.Path splits it into: the parent directories, the stem and the   *)
(* suffix of its last component.                                           *)
(***************************************************************************)

\* Path(f).name
path_name(p) == p.stem \o p.suffix

\* Path(f).suffix
path_suffix(p) == p.suffix

\* entry names: two .json, one .html, one of another suffix, and a last
\* component ".json", which pathlib takes as a stem without suffix
EntryNames ==
    { [parent |-> "",                  stem |-> "friends",   suffix |-> ".json"],
      [parent |-> "messages/inbox/a/", stem |-> "message_1", suffix |-> ".json"],
      [parent |-> "",                  stem |-> "index",     suffix |-> ".html"],
      [parent |-> "media/",            stem |-> "photo",     suffix |-> ".jpg"],
      [parent |-> "",                  stem |-> ".json",     suffix |-> ""] }

\* the files validate_zip is called on: none at the path, a file that is not
\* a zip, or a zip with the given entry names
ZipFiles ==
    { [exists |-> FALSE, is_zip |-> FALSE, names |-> <<>>],
      [exists |-> TRUE,  is_zip |-> FALSE, names |-> <<>>] }
    \cup [exists : {TRUE}, is_zip : {TRUE}, names : SeqsUpTo(EntryNames, MaxItems)]

\* ValidateInput(STATUS_CODES, DDP_CATEGORIES): the arguments each of its two
\* methods has been called with so far
ValidateInput == [set_status_code |-> <<>>, infer_ddp_category |-> <<>>]

\* the suffix test accepting .json only
wanted_suffix_json_only(p) == path_suffix(p) \in {".json"}

\* p.suffix in (".html", ".json")
wanted_suffix(p) == path_suffix(p) \in {".html", ".json"}

\* the loop over zf.namelist() from the i-th name on
RECURSIVE collect_paths(_, _, _)
collect_paths(names, i, paths) ==
    IF i > Len(names) THEN paths
    ELSE collect_paths(names, i + 1,
            IF wanted_suffix(names[i]) THEN Append(paths, path_name(names[i]))
            ELSE paths)

\* zipfile.ZipFile raises FileNotFoundError, which validate_zip does not
\* catch, or BadZipFile, which it does
validate_zip(zfile) ==
    LET validate == ValidateInput IN
    IF ~zfile.exists
    THEN [kind |-> "raise", exc |-> "FileNotFoundError", validate |-> validate]
    ELSE IF ~zfile.is_zip
    THEN [kind |-> "return", exc |-> "none",
          validate |-> [validate EXCEPT !.set_status_code = Append(@, 1)]]
    ELSE LET paths == collect_paths(zfile.names, 1, <<>>) IN
         [kind |-> "return", exc |-> "none",
          validate |-> [validate EXCEPT !.set_status_code = Append(@, 0),
                                        !.infer_ddp_category = Append(@, paths)]]

\* the content of an archive entry: bytes that parse as JSON or not, and in
\* the parsed document the state of the two sections extract_conversation
\* reads ("ok", "missing" or "malformed") and the participants' names
Conversation(who) ==
    [parses |-> TRUE, participants |-> "ok", messages |-> "ok", who |-> who]

EmptyDocument ==
    [parses |-> TRUE, participants |-> "missing", messages |-> "missing", who |-> ""]

\* the entries of a facebook archive: name, whether zf.read can read the
\* entry, and its content
Members ==
    { [name |-> [parent |-> "messages/inbox/a/", stem |-> "message_1", suffix |-> ".json"],
       readable |-> TRUE, bytes |-> Conversation("Ann, Bob")],
      [name |-> [parent |-> "messages/inbox/b/", stem |-> "message_1", suffix |-> ".json"],
       readable |-> TRUE, bytes |-> Conversation("Ann, Cas")],
      [name |-> [parent |-> "", stem |-> "friends", suffix |-> ".json"],
       readable |-> TRUE, bytes |-> EmptyDocument],
      [name |-> [parent |-> "messages/inbox/c/", stem |-> "message_1", suffix |-> ".json"],
       readable |-> TRUE,
       bytes |-> [Conversation("Dan") EXCEPT !.participants = "missing"]],
      [name |-> [parent |-> "messages/inbox/d/", stem |-> "message_1", suffix |-> ".json"],
       readable |-> TRUE,
       bytes |-> [Conversation("Eva") EXCEPT !.messages = "malformed"]],
      [name |-> [parent |-> "messages/inbox/e/", stem |-> "message_1", suffix |-> ".json"],
       readable |-> TRUE,
       bytes |-> [Conversation("Fay") EXCEPT !.parses = FALSE]],
      [name |-> [parent |-> "messages/inbox/f/", stem |-> "message_1", suffix |-> ".json"],
       readable |-> FALSE, bytes |-> Conversation("Gus")] }

FacebookZips ==
    { [exists |-> FALSE, is_zip |-> FALSE, members |-> <<>>],
      [exists |-> TRUE,  is_zip |-> FALSE, members |-> <<>>] }
    \cup [exists : {TRUE}, is_zip : {TRUE}, members : SeqsUpTo(Members, MaxItems)]

\* unzipddp.read_json_from_bytes: the parsed document; bytes that are not
\* JSON give an empty document
read_json_from_bytes(b) == IF b.parses THEN b ELSE EmptyDocument

\* helpers.create_consent_form_tables(unique_table_id, title, df): a list
\* of one table
create_consent_form_tables(unique_table_id, title, df) ==
    << PropsUIPromptConsentFormTable(unique_table_id, title, df) >>

\* extract_conversation without its try/except: a missing or malformed
\* section raises out of the function
extract_conversation_unguarded(b) ==
    LET d == read_json_from_bytes(b) IN
    IF d.participants = "missing" \/ d.messages = "missing"
    THEN Raises("KeyError")
    ELSE IF d.participants = "malformed" \/ d.messages = "malformed"
    THEN Raises("TypeError")
    ELSE Return(create_consent_form_tables("Gesprek tussen: " \o d.who,
                    "Conversation between: " \o d.who, "messages by time"))

\* every exception raised while the sections are read is caught and the
\* initial out = [] is returned
extract_conversation(b) ==
    LET d == read_json_from_bytes(b) IN
    IF d.participants # "ok" \/ d.messages # "ok"
    THEN Return(<<>>)
    ELSE Return(create_consent_form_tables("Gesprek tussen: " \o d.who,
                    "Conversation between: " \o d.who, "messages by time"))

\* the loop over zf.namelist() from the i-th entry on; an exception raised
\* in the loop ends it (except Exception) and finally returns out
RECURSIVE conversations_from(_, _, _)
conversations_from(members, i, result) ==
    IF i > Len(members) THEN result
    ELSE IF path_name(members[i].name) # "message_1.json"
    THEN conversations_from(members, i + 1, result)
    ELSE IF ~members[i].readable THEN result
    ELSE LET r == extract_conversation(members[i].bytes) IN
         IF r.kind = "raise" THEN result
         ELSE conversations_from(members, i + 1, result \o r.value)

\* FileNotFoundError and BadZipFile from zipfile.ZipFile are caught as well
extract_conversations(facebook_zip) ==
    IF ~facebook_zip.exists \/ ~facebook_zip.is_zip THEN Return(<<>>)
    ELSE Return(conversations_from(facebook_zip.members, 1, <<>>))

(***************************************************************************)
(* Calls of the module's functions                                         *)
(***************************************************************************)

InitFn ==
    /\ call = <<>>
    /\ ret = <<>>
    /\ procs = <<>>
    /\ heap = <<>>
    /\ pc = "start"
    /\ self = <<>>
    /\ out = <<>>
    /\ inp = <<>>
    /\ exc = "none"
    /\ extracted = <<>>

Called(fn) == call # <<>> /\ call.fn = fn

CallGetSessions ==
    /\ call = <<>>
    /\ \E timestamps \in SeqsUpTo(Times, MaxItems) :
          /\ call' = [fn |-> "get_sessions", timestamps |-> timestamps]
          /\ ret' = get_sessions(timestamps)
    /\ UNCHANGED <<ctlvars, procs, heap>>

CallGetCountByDateKey ==
    /\ call = <<>>
    /\ \E timestamps \in SeqsUpTo(Times, MaxItems) :
       \E key_func \in {"hourly_key", "daily_key"} :
          /\ call' = [fn |-> "get_count_by_date_key", timestamps |-> timestamps,
                      key_func |-> key_func]
          /\ ret' = get_count_by_date_key(timestamps, key_func)
    /\ UNCHANGED <<ctlvars, procs, heap>>

CallGetDateFilteredItems ==
    /\ call = <<>>
    /\ \E items \in SeqsUpTo(Records, MaxItems) :
          /\ call' = [fn |-> "get_date_filtered_items", items |-> items]
          /\ ret' = get_date_filtered_items(items)
    /\ UNCHANGED <<ctlvars, procs, heap>>

CallValidateZip ==
    /\ call = <<>>
    /\ \E zfile \in ZipFiles :
          /\ call' = [fn |-> "validate_zip", zfile |-> zfile]
          /\ ret' = validate_zip(zfile)
    /\ UNCHANGED <<ctlvars, procs, heap>>

CallExtractConversations ==
    /\ call = <<>>
    /\ \E facebook_zip \in FacebookZips :
          /\ call' = [fn |-> "extract_conversations", facebook_zip |-> facebook_zip]
          /\ ret' = extract_conversations(facebook_zip)
    /\ UNCHANGED <<ctlvars, procs, heap>>

NextFn ==
    \/ CallGetSessions
    \/ CallGetCountByDateKey
    \/ CallGetDateFilteredItems
    \/ CallValidateZip
    \/ CallExtractConversations

SpecFn == InitFn /\ [][NextFn]_vars

(***************************************************************************)
(* Vocabulary of the properties                                            *)
(***************************************************************************)

IsFilePrompt(c) ==
    c.cmd = "CommandUIRender" /\ c.body.prompt = "PropsUIPromptFileInput"

IsConsentForm(c) ==
    c.cmd = "CommandUIRender" /\ c.body.prompt = "PropsUIPromptConsentForm"

IsConfirm(c) ==
    c.cmd = "CommandUIRender" /\ c.body.prompt = "PropsUIPromptConfirm"

IsDonate(c) == c.cmd = "CommandSystemDonate"

HasTag(r, tag) == HasAttr(r, "type") /\ r.type = tag

\* a tagged response of another kind than tag
OtherTag(r, tag) == HasAttr(r, "type") /\ r.type # tag

\* inp[k] is the host's answer to out[k]
Answered == 1..Len(inp)

\* the answers that handed a file to the extractor
FileAnswers == {k \in Answered : IsFilePrompt(out[k]) /\ HasTag(inp[k], "PayloadString")}

ConsentAnswers == {k \in Answered : IsConsentForm(out[k])}

\* the controller went on after answer k by emitting a command
NextCommand(k) == out[k + 1]

\* an archive that opens as a zip and holds no .json entry that parses
ZeroDocuments(path) ==
    LET a == Archive(path) IN
    /\ a.exists
    /\ a.is_zip
    /\ \A i \in 1..Len(a.entries) :
          ~(a.entries[i].suffix = ".json" /\ a.entries[i].parses)

(***************************************************************************)
(* Properties                                                              *)
(***************************************************************************)

\* C2: when the host answers the consent form with a PayloadJSON response,
\* the next command is donate("<session_id>-<platform>", the returned value).
C2_DonateOnConsent ==
    \A k \in ConsentAnswers :
        HasTag(inp[k], "PayloadJSON") =>
            /\ Len(out) > k
            /\ NextCommand(k) = donate(self.session_id \o "-" \o self.platform,
                                       inp[k].value)

\* C4: when the host answers the consent form with a decision that is not a
\* PayloadJSON, the controller has returned normally and emitted nothing
\* after the consent form.
C4_DeclineTerminates ==
    \A k \in ConsentAnswers :
        OtherTag(inp[k], "PayloadJSON") =>
            /\ Len(out) = k
            /\ pc = "done"
            /\ \A i \in 1..Len(out) : ~IsDonate(out[i])

C6_ExtractionFailureAbsorbed ==
    \A k \in FileAnswers :
        LET res == extract_tiktok_data(inp[k].value) IN
        (res.kind = "raise" /\ ~IsIOError(res.exc)) =>
            /\ ~(k = Len(inp) /\ pc = "raised")
            /\ Len(out) > k
            /\ IsConsentForm(NextCommand(k))

\* C7: when the extractor raises an IOError, the controller's next command
\* is a render-page carrying the confirm-or-cancel retry prompt.
C7_RetryOffered ==
    \A k \in FileAnswers :
        LET res == extract_tiktok_data(inp[k].value) IN
        (res.kind = "raise" /\ IsIOError(res.exc)) =>
            /\ Len(out) > k
            /\ IsConfirm(NextCommand(k))

\* C8: for an archive with zero parseable top-level JSON documents the
\* extractor returns an empty list, and the controller's next command is a
\* consent form with no data table and a non-empty log table.
C8_EmptyArchiveReachesConsent ==
    \A k \in FileAnswers :
        ZeroDocuments(inp[k].value) =>
            /\ extract_tiktok_data(inp[k].value) = Return(<<>>)
            /\ Len(out) > k
            /\ IsConsentForm(NextCommand(k))
            /\ NextCommand(k).body.tables = <<>>
            /\ NextCommand(k).body.meta_tables[1].data_frame # <<>>

\* C9: a file-prompt answer without the PayloadString tag (another tag or no
\* tag) is a skip, a consent answer without the PayloadJSON tag (another tag
\* or no tag) is a decline, and no answer makes the controller raise.
C9_UntaggedIsSkipOrDecline ==
    \A k \in Answered :
        /\ (IsFilePrompt(out[k]) /\ ~HasTag(inp[k], "PayloadString")) =>
              (Len(out) = k /\ pc = "done")
        /\ (IsConsentForm(out[k]) /\ ~HasTag(inp[k], "PayloadJSON")) =>
              (\A i \in k + 1..Len(out) : ~IsDonate(out[i]))
        /\ (k = Len(inp) /\ pc = "raised") => exc # "AttributeError"

C11_EveryTransitionLogs ==
    [][(pc \in Suspended /\ exc' = "none") =>
          /\ Len(self'.meta_data) > Len(self.meta_data)
          /\ SubSeq(self'.meta_data, 1, Len(self.meta_data)) = self.meta_data]_vars

\* C12: the consent form the controller is parked at carries one table per
\* ExtractionResult of the extraction, same order and ids, and exactly one
\* log table "log_messages" whose rows are the whole log at the emission.
C12_ConsentFormCarriesLog ==
    pc = "await_consent" =>
        LET form == out[Len(out)].body
            res  == extract_tiktok_data(inp[Len(inp)].value).value
        IN /\ Len(form.tables) = Len(res)
           /\ \A j \in 1..Len(res) : form.tables[j].id = res[j].id
           /\ Len(form.meta_tables) = 1
           /\ form.meta_tables[1].id = "log_messages"
           /\ form.meta_tables[1].data_frame = self.meta_data

\* what one controller built for session sid by the DataDonation object dd
\* is after the answers inps, run on its own
RECURSIVE Alone(_, _, _)
Alone(dd, sid, inps) ==
    IF inps = <<>>
    THEN prompt_file([pc |-> "start",
                      self |-> DataDonationProcessor(dd.platform, dd.mime_types,
                                                     dd.extractor, sid),
                      out |-> <<>>, exc |-> "none", extracted |-> <<>>])
    ELSE send(Alone(dd, sid, SubSeq(inps, 1, Len(inps) - 1)), inps[Len(inps)])

Started(i) == procs[i].pc # "start"

\* C13: of two controllers made by the same DataDonation object and stepped
\* in any interleaving, each one's log, progress counter and commands are
\* those of a controller run alone on the answers it received, and a step
\* that is not its own leaves its FlowState unchanged.
C13_NoSharedState ==
    /\ [](\A i \in Instances :
            Started(i) => View(i) = Alone(procs[i].dd, procs[i].session_id,
                                          procs[i].inp))
    /\ [][\A i \in Instances :
            (Started(i) /\ procs'[i].inp = procs[i].inp) => View(i)' = View(i)]_vars

C13_Witness ==
    /\ Started(1)
    /\ Started(2)
    /\ procs[1].pc = "done"
    /\ Len(View(1).self.meta_data) = 1
    /\ procs[2].pc = "await_consent"
    /\ Len(procs[2].inp) = 2
    /\ Len(View(2).self.meta_data) = 5
    /\ procs[1].self.meta_data # procs[2].self.meta_data

\* the input timestamps a session (start, end, duration) covers
Covered(timestamps, session) ==
    {k \in 1..Len(timestamps) :
        session[1] <= timestamps[k] /\ timestamps[k] <= session[2]}

\* C14: for timestamps given in any order, the sessions get_sessions returns
\* are ordered by start, do not overlap, cover every input exactly once,
\* start and end at inputs, hold no gap of more than 1 hour between
\* consecutive inputs, lie more than 1 hour apart, and have
\* duration = end - start.
C14_SessionsPartitionInput ==
    Called("get_sessions") =>
        LET ts == call.timestamps IN
        /\ \A i \in 1..Len(ret) :
              /\ ret[i][1] <= ret[i][2]
              /\ ret[i][3] = ret[i][2] - ret[i][1]
              /\ \E k \in 1..Len(ts) : ts[k] = ret[i][1]
              /\ \E k \in 1..Len(ts) : ts[k] = ret[i][2]
              /\ \A k \in Covered(ts, ret[i]) :
                    ts[k] < ret[i][2] =>
                        \E m \in Covered(ts, ret[i]) :
                            ts[k] < ts[m] /\ ts[m] - ts[k] <= Hour
        /\ \A i \in 1..Len(ret) - 1 :
              /\ ret[i][1] < ret[i + 1][1]
              /\ ret[i][2] < ret[i + 1][1]
              /\ ret[i + 1][1] - ret[i][2] > Hour
        /\ \A k \in 1..Len(ts) :
              Cardinality({i \in 1..Len(ret) : k \in Covered(ts, ret[i])}) = 1

\* unsorted input with a gap inside a session and a gap between sessions
C14_Witness ==
    /\ Called("get_sessions")
    /\ call.timestamps = <<122400, 37800, 36000>>
    /\ Len(ret) = 2

\* C15: get_sessions splits only on a gap of more than 1 hour: timestamps
\* exactly 1 hour apart share a session, no input gives no session, one
\* input gives one session of duration zero, and [10:00, 10:30, 12:00] gives
\* [(10:00, 10:30, 30 min), (12:00, 12:00, 0)].
C15_SplitOnlyAboveOneHour ==
    Called("get_sessions") =>
        LET ts == call.timestamps IN
        /\ \A k, m \in 1..Len(ts) :
              ts[m] - ts[k] = Hour =>
                  \E i \in 1..Len(ret) : {k, m} \subseteq Covered(ts, ret[i])
        /\ ts = <<>> => ret = <<>>
        /\ Len(ts) = 1 => ret = << <<ts[1], ts[1], 0>> >>
        /\ ts = <<36000, 37800, 43200>> =>
              ret = << <<36000, 37800, 1800>>, <<43200, 43200, 0>> >>

\* 10:00 and 11:00 stay together, 12:00 after 10:30 would split
C15_Witness ==
    /\ Called("get_sessions")
    /\ call.timestamps = <<36000, 39600>>
    /\ ret = << <<36000, 39600, 3600>> >>

RECURSIVE SumCounts(_)
SumCounts(pairs) ==
    IF pairs = <<>> THEN 0 ELSE Head(pairs)[2] + SumCounts(Tail(pairs))

\* C16: the (key, count) pairs get_count_by_date_key returns have strictly
\* ascending keys, each count is the number of input timestamps with that
\* key, every input's key is listed, the counts sum to the number of
\* inputs, and no input gives no pair.
C16_CountsPerKey ==
    Called("get_count_by_date_key") =>
        LET ts == call.timestamps
            KeyOf(k) == apply_key(call.key_func, ts[k])
        IN /\ \A i \in 1..Len(ret) - 1 : ret[i][1] < ret[i + 1][1]
           /\ \A i \in 1..Len(ret) :
                 ret[i][2] = Cardinality({k \in 1..Len(ts) : KeyOf(k) = ret[i][1]})
           /\ \A k \in 1..Len(ts) : \E i \in 1..Len(ret) : ret[i][1] = KeyOf(k)
           /\ SumCounts(ret) = Len(ts)
           /\ ts = <<>> => ret = <<>>

\* 10:00, 12:00 and 10:30 by the hour: 10:00 counted twice, 12:00 once
C16_Witness ==
    /\ Called("get_count_by_date_key")
    /\ call.key_func = "hourly_key"
    /\ call.timestamps = <<36000, 43200, 37800>>
    /\ ret = << <<36000, 2>>, <<43200, 1>> >>

\* a <= b on datetimes
DatetimeLe(a, b) == a = b \/ datetime_lt(a, b)

\* C17: get_date_filtered_items emits, for exactly the records whose
\* timestamp t has filter_start <= t <= filter_end, the pair (t, record),
\* once each, unaltered and in the order of the input.
C17_FilterIsInclusiveSubsequence ==
    Called("get_date_filtered_items") =>
        LET items == call.items
            Kept == {k \in 1..Len(items) :
                        /\ DatetimeLe(filter_start, strptime(items[k].Date))
                        /\ DatetimeLe(strptime(items[k].Date), filter_end)}
            Rank(k) == Cardinality({j \in Kept : j <= k})
        IN /\ Len(ret) = Cardinality(Kept)
           /\ \A k \in Kept : ret[Rank(k)] = <<strptime(items[k].Date), items[k]>>

\* a record at each end of the window kept, one a second too late dropped
C17_Witness ==
    /\ Called("get_date_filtered_items")
    /\ Len(call.items) = 3
    /\ call.items[1].Date = <<2025, 1, 1, 0, 0, 0>>
    /\ call.items[2].Date = <<2025, 1, 1, 0, 0, 1>>
    /\ call.items[3].Date = <<2021, 1, 1, 0, 0, 0>>
    /\ Len(ret) = 2
    /\ ret[2][2] = call.items[3]

\* C18: on a corrupt zip validate_zip returns with set_status_code(1) as its
\* only call on the validation result, no category inference; on a readable
\* zip it calls set_status_code(0) and then infers the category once, from
\* the base names of exactly the entries with suffix .json or .html, in
\* archive order.
C18_ValidateZipStatus ==
    Called("validate_zip") =>
        LET z == call.zfile
            Wanted == {k \in 1..Len(z.names) : z.names[k].suffix \in {".json", ".html"}}
            Rank(k) == Cardinality({j \in Wanted : j <= k})
        IN /\ (z.exists /\ ~z.is_zip) =>
                 /\ ret.kind = "return"
                 /\ ret.validate.set_status_code = <<1>>
                 /\ ret.validate.infer_ddp_category = <<>>
           /\ (z.exists /\ z.is_zip) =>
                 /\ ret.kind = "return"
                 /\ ret.validate.set_status_code = <<0>>
                 /\ Len(ret.validate.infer_ddp_category) = 1
                 /\ Len(ret.validate.infer_ddp_category[1]) = Cardinality(Wanted)
                 /\ \A k \in Wanted :
                       ret.validate.infer_ddp_category[1][Rank(k)]
                           = z.names[k].stem \o z.names[k].suffix

C18_Witness ==
    /\ Called("validate_zip")
    /\ call.zfile.is_zip
    /\ Len(call.zfile.names) = 3
    /\ ret.validate.infer_ddp_category = << <<"index.html", "message_1.json">> >>

IsConversation(m) == m.name.stem \o m.name.suffix = "message_1.json"

\* a conversation document with a missing or malformed section or of
\* unreadable JSON
FailsToExtract(m) ==
    ~m.bytes.parses \/ m.bytes.participants # "ok" \/ m.bytes.messages # "ok"

IsEndPage(c) == c.cmd = "CommandUIRender" /\ c.page = "PropsUIPageEnd"

IsPrompt(c, prompt) ==
    c.cmd = "CommandUIRender" /\ c.page = "PropsUIPageDonation"
    /\ c.body.prompt = prompt

\* the answers on which the platform controller returns: a tagged answer to
\* a file prompt that is not a PayloadString
ControllerReturns ==
    {k \in Answered : /\ IsPrompt(out[k], "PropsUIPromptFileInput")
                      /\ OtherTag(inp[k], "PayloadString")}

\* C20: the first command of process(session_id) is the donate keyed
\* "<session_id>-tracking", no other command precedes it, at most one end
\* page is emitted and nothing after it, and once the platform controller has
\* returned the end page is the command that follows and the last one.
C20_TrackingFirstEndPageLast ==
    /\ out # <<>> =>
          out[1] = donate(call.session_id \o "-tracking",
                          "[{ \"message\": \"user entered script\" }]")
    /\ \A i \in 2..Len(out) : ~IsDonate(out[i]) \/ out[i].key # out[1].key
    /\ \A i \in 1..Len(out) : IsEndPage(out[i]) => i = Len(out)
    /\ \A k \in ControllerReturns :
          /\ Len(out) = k + 1
          /\ IsEndPage(out[k + 1])
          /\ pc \in {"await_end", "done"}
          /\ exc = "none"

\* a run with a retry after an IOError, a skip, and the end page answered
C20_Witness ==
    /\ pc = "done"
    /\ Len(inp) = 4
    /\ Len(out) = 4
    /\ IsDonate(out[1])
    /\ IsPrompt(out[2], "PropsUIPromptFileInput")
    /\ IsPrompt(out[3], "PropsUIPromptFileInput")
    /\ IsEndPage(out[4])

\* the answer that takes the step is a file on which the extractor raises
\* an IOError
AnsweredWithUnreadableFile ==
    /\ pc = "await_file"
    /\ Len(inp') = Len(inp) + 1
    /\ HasTag(inp'[Len(inp')], "PayloadString")
    /\ LET res == extract_tiktok_data(inp'[Len(inp')].value)
       IN res.kind = "raise" /\ IsIOError(res.exc)

\* C21: when the extractor raises an IOError on the file the host handed
\* over, the controller logs "extracting file" and then "prompt confirmation
\* to retry file selection", emits no consent form and no donate, and its one
\* new command is the file prompt again, equal to the one before (platform,
\* mime types, progress); it is parked at that prompt without an exception,
\* so the same holds for the next IOError, any number of times.
C21_IOErrorPromptsForFileAgain ==
    [][AnsweredWithUnreadableFile =>
          /\ self'.meta_data = self.meta_data \o
                << <<"debug", self.platform \o ": extracting file">>,
                   <<"debug", self.platform
                        \o ": prompt confirmation to retry file selection">> >>
          /\ out' = Append(out, out[Len(out)])
          /\ IsFilePrompt(out'[Len(out')])
          /\ out'[Len(out')].platform = self.platform
          /\ out'[Len(out')].body.extensions = self.mime_types
          /\ out'[Len(out')].footer = self.progress
          /\ pc' = "await_file"
          /\ exc' = "none"
          /\ self'.progress = self.progress]_vars

\* three IOErrors in a row: four file prompts, no other command
C21_Witness ==
    /\ Len(inp) = 3
    /\ \A k \in 1..3 : HasTag(inp[k], "PayloadString") /\ inp[k].value = "missing.zip"
    /\ pc = "await_file"
    /\ Len(out) = 4
    /\ \A i \in 1..4 : IsFilePrompt(out[i])
    /\ Len(self.meta_data) = 6

====
